---------------------------- MODULE Spec2Model ----------------------------
(***************************************************************************)
(* Double-click image opener: the click-handling chain                     *)
(*   ImageEventHandler.handleImageDoubleClick                              *)
(*     -> extractImagePath / sanitizeImagePath / isValidImageFormat        *)
(*     -> PathResolver.resolveImagePath                                    *)
(*     -> SystemLauncher.openWithDefaultApp                                *)
(* A string of the program is a sequence of one-character strings.  The    *)
(* characters that have no TLA+ literal are named: "NUL" (code 0), "BEL"   *)
(* (code 7), "TAB" (code 9), "LF" (code 10), "DEL" (code 127), and "BQ"     *)
(* for the backquote (code 96).  The alphabet is ASCII, on which           *)
(* String.prototype.normalize('NFC') changes nothing, so the two NFC steps *)
(* of the code leave no trace here.                                        *)
(***************************************************************************)
EXTENDS Integers, Sequences, FiniteSets, TLC

---------------------------------------------------------------------------
(* Characters *)

BS == "\\"
DQ == "\""
BQ == "BQ"

\* JavaScript \s / String.prototype.trim whitespace, within the alphabet
WhiteSpace == {" ", "TAB", "LF", "CR", "VT", "FF"}

\* Line terminators, which the regex dot does not match
LineTerminators == {"LF", "CR"}

UpperLetters == <<"A","B","C","D","E","F","G","H","I","J","K","L","M",
                  "N","O","P","Q","R","S","T","U","V","W","X","Y","Z">>

LowerLetters == <<"a","b","c","d","e","f","g","h","i","j","k","l","m",
                  "n","o","p","q","r","s","t","u","v","w","x","y","z">>

Letters == {UpperLetters[i] : i \in 1..26} \cup {LowerLetters[i] : i \in 1..26}

\* The printable ASCII characters, in code order from 32 (space) to 126
Printable ==
  <<
    " ", "!", DQ, "#", "$", "%", "&", "'", "(", ")", "*", "+",
    ",", "-", ".", "/", "0", "1", "2", "3", "4", "5", "6", "7",
    "8", "9", ":", ";", "<", "=", ">", "?", "@", "A", "B", "C",
    "D", "E", "F", "G", "H", "I", "J", "K", "L", "M", "N", "O",
    "P", "Q", "R", "S", "T", "U", "V", "W", "X", "Y", "Z", "[",
    BS, "]", "^", "_", BQ, "a", "b", "c", "d", "e", "f", "g",
    "h", "i", "j", "k", "l", "m", "n", "o", "p", "q", "r", "s",
    "t", "u", "v", "w", "x", "y", "z", "{", "|", "}", "~"
  >>

\* The named control characters with their codes
ControlCode(c) ==
    CASE c = "NUL" -> 0
      [] c = "BEL" -> 7
      [] c = "TAB" -> 9
      [] c = "LF"  -> 10
      [] c = "VT"  -> 11
      [] c = "FF"  -> 12
      [] c = "CR"  -> 13
      [] c = "ESC" -> 27
      [] c = "DEL" -> 127

ControlChars == {"NUL", "BEL", "TAB", "LF", "VT", "FF", "CR", "ESC", "DEL"}

\* String.prototype.charCodeAt for one character
CharCode(c) ==
    IF c \in ControlChars THEN ControlCode(c)
    ELSE (CHOOSE i \in 1..Len(Printable) : Printable[i] = c) + 31

\* String.fromCharCode for an ASCII code; codes of control characters that
\* have no name here are outside the alphabet and are never asked for
FromCharCode(n) ==
    IF n > 31 /\ n - 31 <= Len(Printable)
    THEN Printable[n - 31]
    ELSE CHOOSE c \in ControlChars : ControlCode(c) = n

\* String.prototype.toLowerCase on one character
LowerChar(c) ==
    IF \E i \in 1..26 : UpperLetters[i] = c
    THEN LowerLetters[CHOOSE i \in 1..26 : UpperLetters[i] = c]
    ELSE c

---------------------------------------------------------------------------
(* String primitives of the JavaScript runtime *)

\* String.prototype.startsWith
StartsWith(s, p) == Len(s) >= Len(p) /\ SubSeq(s, 1, Len(p)) = p

\* String.prototype.endsWith
EndsWith(s, p) == Len(s) >= Len(p) /\ SubSeq(s, Len(s) - Len(p) + 1, Len(s)) = p

\* String.prototype.includes for a single character
Includes(s, c) == \E i \in 1..Len(s) : s[i] = c

\* String.prototype.includes for a substring
IncludesStr(s, p) ==
    \E i \in 1..(Len(s) - Len(p) + 1) : SubSeq(s, i, i + Len(p) - 1) = p

\* String.prototype.slice(n)
Drop(s, n) == SubSeq(s, n + 1, Len(s))

\* String.prototype.toLowerCase
ToLowerCase(s) == [i \in 1..Len(s) |-> LowerChar(s[i])]

\* String.prototype.trim
RECURSIVE TrimStart(_)
TrimStart(s) ==
    IF s # <<>> /\ Head(s) \in WhiteSpace THEN TrimStart(Tail(s)) ELSE s

RECURSIVE TrimEnd(_)
TrimEnd(s) ==
    IF s # <<>> /\ s[Len(s)] \in WhiteSpace
    THEN TrimEnd(SubSeq(s, 1, Len(s) - 1))
    ELSE s

Trim(s) == TrimEnd(TrimStart(s))

\* s.split(c)[0]: the part of s before the first c
BeforeFirst(s, c) ==
    IF Includes(s, c)
    THEN SubSeq(s, 1, (CHOOSE i \in 1..Len(s) :
                          s[i] = c /\ \A j \in 1..(i - 1) : s[j] # c) - 1)
    ELSE s

\* String.prototype.lastIndexOf for a single character, 1-based, 0 if none
LastIndexOf(s, c) ==
    IF Includes(s, c)
    THEN CHOOSE i \in 1..Len(s) : s[i] = c /\ \A j \in (i + 1)..Len(s) : s[j] # c
    ELSE 0

\* The number of consecutive occurrences of c that end just before
\* position i of s
RunBefore(s, i, c) ==
    IF i = 1 \/ s[i - 1] # c THEN 0
    ELSE IF \A j \in 1..(i - 1) : s[j] = c THEN i - 1
    ELSE i - 1 - (CHOOSE j \in 1..(i - 1) :
                     s[j] # c /\ \A k \in (j + 1)..(i - 1) : s[k] = c)

\* pieces.join(''): the concatenation of a sequence of strings
RECURSIVE Concat(_)
Concat(pieces) ==
    IF Len(pieces) = 0 THEN <<>>
    ELSE IF Len(pieces) = 1 THEN pieces[1]
    ELSE Concat(SubSeq(pieces, 1, Len(pieces) \div 2))
         \o Concat(SubSeq(pieces, Len(pieces) \div 2 + 1, Len(pieces)))

\* (s.match(/\.\./g) || []).length: the non-overlapping matches of "..",
\* found left to right; a match starts at an even offset of a run of dots
CountDotDot(s) ==
    Cardinality({i \in 1..(Len(s) - 1) :
                    s[i] = "." /\ s[i + 1] = "." /\ RunBefore(s, i, ".") % 2 = 0})

\* s.replace(/\\/g, '/')
ReplaceBackslashes(s) == [i \in 1..Len(s) |-> IF s[i] = BS THEN "/" ELSE s[i]]

\* s.replace(/\/+/g, '/'): one slash is left of every run of slashes
CollapseSlashes(s) ==
    Concat([i \in 1..Len(s) |->
               IF s[i] = "/" /\ i < Len(s) /\ s[i + 1] = "/" THEN <<>> ELSE <<s[i]>>])

\* The positions of s that hold a separator
SepPositions(s, seps) == {i \in 1..Len(s) : s[i] \in seps}

\* The k-th smallest member of a set of positions
NthOf(P, k) == CHOOSE i \in P : Cardinality({j \in P : j <= i}) = k

\* The position of the k-th separator; 0 and Len(s) + 1 bound the string
CutAt(s, P, k) ==
    IF k = 0 THEN 0
    ELSE IF k = Cardinality(P) + 1 THEN Len(s) + 1
    ELSE NthOf(P, k)

SplitAt(s, P) ==
    [k \in 1..(Cardinality(P) + 1) |->
        SubSeq(s, CutAt(s, P, k - 1) + 1, CutAt(s, P, k) - 1)]

\* The segments of s between separators (s.split on the separator set)
Split(s, seps) == SplitAt(s, SepPositions(s, seps))

\* segs.join(sep)
RECURSIVE JoinWith(_, _)
JoinWith(segs, sep) ==
    IF segs = <<>> THEN <<>>
    ELSE IF Len(segs) = 1 THEN segs[1]
    ELSE segs[1] \o <<sep>> \o JoinWith(Tail(segs), sep)

---------------------------------------------------------------------------
(* node:path, POSIX and Windows flavours.  The module the program imports  *)
(* is the flavour of the platform it runs on.  Windows paths are modelled  *)
(* for drive-letter roots ("C:\..."): the resolver replaces every          *)
(* backslash by a slash before it classifies a path, and the vault root is *)
(* a drive path, so a UNC root never reaches these functions.              *)

\* normalizeString: resolves "." and ".." segments
RECURSIVE NormalizeSegs(_, _, _)
NormalizeSegs(segs, allowAboveRoot, acc) ==
    IF segs = <<>> THEN acc
    ELSE LET seg == Head(segs)
             rest == Tail(segs)
         IN  IF seg = <<>> \/ seg = <<".">>
             THEN NormalizeSegs(rest, allowAboveRoot, acc)
             ELSE IF seg = <<".", ".">>
             THEN IF acc # <<>> /\ acc[Len(acc)] # <<".", ".">>
                  THEN NormalizeSegs(rest, allowAboveRoot, SubSeq(acc, 1, Len(acc) - 1))
                  ELSE IF allowAboveRoot
                  THEN NormalizeSegs(rest, allowAboveRoot, Append(acc, seg))
                  ELSE NormalizeSegs(rest, allowAboveRoot, acc)
             ELSE NormalizeSegs(rest, allowAboveRoot, Append(acc, seg))

NormalizeString(path, allowAboveRoot, sep, seps) ==
    JoinWith(NormalizeSegs(Split(path, seps), allowAboveRoot, <<>>), sep)

\* path.posix.normalize
PosixNormalize(path) ==
    IF path = <<>> THEN <<".">>
    ELSE LET isAbsolute == path[1] = "/"
             trailing == path[Len(path)] = "/"
             body == NormalizeString(path, ~isAbsolute, "/", {"/"})
         IN  IF body = <<>>
             THEN IF isAbsolute THEN <<"/">>
                  ELSE IF trailing THEN <<".", "/">> ELSE <<".">>
             ELSE (IF isAbsolute THEN <<"/">> ELSE <<>>) \o body
                  \o (IF trailing THEN <<"/">> ELSE <<>>)

\* path.posix.join of two arguments
PosixJoin(a, b) ==
    IF a = <<>> /\ b = <<>> THEN <<".">>
    ELSE IF a = <<>> THEN PosixNormalize(b)
    ELSE IF b = <<>> THEN PosixNormalize(a)
    ELSE PosixNormalize(a \o <<"/">> \o b)

\* process.cwd(): read by path.resolve only for a relative argument
Cwd == <<"/", "w">>

\* path.posix.resolve of one argument
PosixResolve(path) ==
    LET full == IF path # <<>> /\ path[1] = "/" THEN path
                ELSE IF path = <<>> THEN Cwd
                ELSE Cwd \o <<"/">> \o path
    IN  <<"/">> \o NormalizeString(full, FALSE, "/", {"/"})

WinSeps == {"/", BS}

\* The device ("C:") a Windows path starts with, or the empty string
WinDevice(path) ==
    IF Len(path) >= 2 /\ path[1] \in Letters /\ path[2] = ":"
    THEN SubSeq(path, 1, 2)
    ELSE <<>>

\* path.win32.normalize
WinNormalize(path) ==
    IF path = <<>> THEN <<".">>
    ELSE LET device == WinDevice(path)
             rest == Drop(path, Len(device))
             isAbsolute == rest # <<>> /\ rest[1] \in WinSeps
             trailing == rest # <<>> /\ rest[Len(rest)] \in WinSeps
             body == NormalizeString(rest, ~isAbsolute, BS, WinSeps)
             tail == IF body = <<>>
                     THEN IF isAbsolute THEN <<>> ELSE <<".">>
                     ELSE body \o (IF trailing THEN <<BS>> ELSE <<>>)
         IN  device \o (IF isAbsolute THEN <<BS>> ELSE <<>>) \o tail

\* path.win32.join of two arguments
WinJoin(a, b) ==
    IF a = <<>> /\ b = <<>> THEN <<".">>
    ELSE IF a = <<>> THEN WinNormalize(b)
    ELSE IF b = <<>> THEN WinNormalize(a)
    ELSE WinNormalize(a \o <<BS>> \o b)

\* path.win32.resolve of one argument that names its drive and root
WinResolve(path) ==
    LET device == WinDevice(path)
        rest == Drop(path, Len(device))
    IN  device \o <<BS>> \o NormalizeString(rest, FALSE, BS, WinSeps)

\* normalize, join and resolve as imported from 'path' on the given platform
normalize(plat, path) ==
    IF plat = "win32" THEN WinNormalize(path) ELSE PosixNormalize(path)

join(plat, a, b) ==
    IF plat = "win32" THEN WinJoin(a, b) ELSE PosixJoin(a, b)

resolve(plat, path) ==
    IF plat = "win32" THEN WinResolve(path) ELSE PosixResolve(path)

---------------------------------------------------------------------------
(* decodeURIComponent.  A percent sign must be followed by two hex digits; *)
(* a byte of 128 or more starts a multi-byte UTF-8 sequence, which the     *)
(* ASCII alphabet cannot complete, so it is malformed here as it is in the *)
(* runtime when no continuation bytes follow.                              *)

HexUpper == <<"0","1","2","3","4","5","6","7","8","9","A","B","C","D","E","F">>
HexLower == <<"0","1","2","3","4","5","6","7","8","9","a","b","c","d","e","f">>

IsHexDigit(c) == \E i \in 1..16 : HexUpper[i] = c \/ HexLower[i] = c

HexValue(c) == (CHOOSE i \in 1..16 : HexUpper[i] = c \/ HexLower[i] = c) - 1

\* Whether every percent sign of s starts a decodable escape; when not,
\* the runtime throws URIError
RECURSIVE WellFormedEscapes(_)
WellFormedEscapes(s) ==
    IF s = <<>> THEN TRUE
    ELSE IF s[1] # "%" THEN WellFormedEscapes(Tail(s))
    ELSE /\ Len(s) >= 3
         /\ IsHexDigit(s[2])
         /\ IsHexDigit(s[3])
         /\ 16 * HexValue(s[2]) + HexValue(s[3]) <= 127
         /\ WellFormedEscapes(Drop(s, 3))

\* The decoded form of a string whose escapes are well formed
RECURSIVE DecodeEscapes(_)
DecodeEscapes(s) ==
    IF s = <<>> THEN <<>>
    ELSE IF s[1] # "%" THEN <<s[1]>> \o DecodeEscapes(Tail(s))
    ELSE <<FromCharCode(16 * HexValue(s[2]) + HexValue(s[3]))>> \o DecodeEscapes(Drop(s, 3))

\* decodeURIComponent; [ok |-> FALSE] stands for the URIError it throws
decodeURIComponent(s) ==
    IF WellFormedEscapes(s) THEN [ok |-> TRUE, value |-> DecodeEscapes(s)]
    ELSE [ok |-> FALSE, value |-> <<>>]

\* try { decodeURIComponent(s) } catch { s }
DecodeOrKeep(s) == IF WellFormedEscapes(s) THEN DecodeEscapes(s) ELSE s

---------------------------------------------------------------------------
(* The dangerous-pattern regular expressions shared by the three layers *)

\* /^\s*[<>]/
LeadingRedirection(s) ==
    LET t == TrimStart(s) IN t # <<>> /\ t[1] \in {"<", ">"}

\* /\$\{.*\}/
VariableExpansion(s) ==
    \E i \in 1..(Len(s) - 2) :
        /\ s[i] = "$"
        /\ s[i + 1] = "{"
        /\ \E j \in (i + 2)..Len(s) :
              s[j] = "}" /\ \A k \in (i + 2)..(j - 1) : s[k] \notin LineTerminators

\* /`.*`/
CommandSubstitution(s) ==
    \E i \in 1..(Len(s) - 1) :
        /\ s[i] = BQ
        /\ \E j \in (i + 1)..Len(s) :
              s[j] = BQ /\ \A k \in (i + 1)..(j - 1) : s[k] \notin LineTerminators

\* /[;&|`$]/
InjectionChars == {";", "&", "|", BQ, "$"}

\* /[;&|`$(){}[\]]/
LauncherInjectionChars == {";", "&", "|", BQ, "$", "(", ")", "{", "}", "[", "]"}

MatchesAnyOf(s, chars) == \E i \in 1..Len(s) : s[i] \in chars

---------------------------------------------------------------------------
(* ImageEventHandler: the extractor *)

HandlerMaxTraversal == 5
HandlerMaxPath == 1000

\* ImageEventHandler.isDangerousPath
isDangerousPath(imagePath) ==
    \/ Includes(imagePath, "NUL")
    \/ CountDotDot(imagePath) > HandlerMaxTraversal
    \/ MatchesAnyOf(imagePath, InjectionChars)
    \/ LeadingRedirection(imagePath)
    \/ VariableExpansion(imagePath)
    \/ CommandSubstitution(imagePath)

S_file == <<"f", "i", "l", "e", ":", "/", "/">>
S_app == <<"a", "p", "p", ":", "/", "/">>
S_data == <<"d", "a", "t", "a", ":">>
S_blob == <<"b", "l", "o", "b", ":">>
S_http == <<"h", "t", "t", "p", ":", "/", "/">>
S_https == <<"h", "t", "t", "p", "s", ":", "/", "/">>

\* The part of s before its first line terminator: what (.+) can match
RECURSIVE FirstLine(_)
FirstLine(s) ==
    IF s = <<>> \/ Head(s) \in LineTerminators THEN <<>>
    ELSE <<Head(s)>> \o FirstLine(Tail(s))

\* The group captured by /app:\/\/[^/]+\/(.+)/ in "app://" followed by
\* `after`, where `after` holds no second "app://": the empty string when
\* there is no match
AppUrlGroup(after, authority) ==
    IF authority # <<>> /\ Len(after) > Len(authority)
    THEN FirstLine(Drop(after, Len(authority) + 1))
    ELSE <<>>

AppUrlRest(path) ==
    AppUrlGroup(Drop(path, Len(S_app)), BeforeFirst(Drop(path, Len(S_app)), "/"))

\* The file:// step of sanitizeImagePath
StripScheme(path) ==
    IF StartsWith(path, S_file) THEN DecodeOrKeep(Drop(path, Len(S_file))) ELSE path

\* The app:// step of sanitizeImagePath
StripAppSchemeWith(path, group) ==
    IF group # <<>> THEN DecodeOrKeep(group) ELSE path

StripAppScheme(path) ==
    IF StartsWith(path, S_app) THEN StripAppSchemeWith(path, AppUrlRest(path)) ELSE path

\* A decoding step that accepts the decoded form unseen
KeepUnlessSafeUnchecked(path, decoded) == decoded

\* The percent-decoding step of sanitizeImagePath
KeepUnlessSafe(path, decoded) ==
    IF ~isDangerousPath(decoded) THEN decoded ELSE path

OpportunisticDecode(path) ==
    IF Includes(path, "%") /\ WellFormedEscapes(path)
    THEN KeepUnlessSafe(path, DecodeEscapes(path))
    ELSE path

\* /^[./\\]+$/
OnlyDotsAndSlashes(path) ==
    path # <<>> /\ \A i \in 1..Len(path) : path[i] \in {".", "/", BS}

\* The steps of sanitizeImagePath after the scheme checks
SanitizeLocal(path) ==
    IF path = <<>> \/ OnlyDotsAndSlashes(path)
    THEN [path |-> <<>>, notices |-> <<>>]
    ELSE [path |-> path, notices |-> <<>>]

\* A sanitiser without the http(s) check
SanitizeSchemeNoNetwork(scheme) ==
    IF StartsWith(scheme, S_data) \/ StartsWith(scheme, S_blob)
    THEN [path |-> <<>>, notices |-> <<"EMBEDDED_IMAGE_ERROR">>]
    ELSE SanitizeLocal(
            Trim(OpportunisticDecode(
                   ReplaceBackslashes(BeforeFirst(BeforeFirst(scheme, "?"), "#")))))

\* The scheme checks of sanitizeImagePath
SanitizeScheme(scheme) ==
    IF StartsWith(scheme, S_data) \/ StartsWith(scheme, S_blob)
    THEN [path |-> <<>>, notices |-> <<"EMBEDDED_IMAGE_ERROR">>]
    ELSE IF StartsWith(scheme, S_http) \/ StartsWith(scheme, S_https)
    THEN [path |-> <<>>, notices |-> <<"NETWORK_IMAGE_ERROR">>]
    ELSE SanitizeLocal(
            Trim(OpportunisticDecode(
                   ReplaceBackslashes(BeforeFirst(BeforeFirst(scheme, "?"), "#")))))

\* ImageEventHandler.sanitizeImagePath: the sanitised path (the empty string
\* for null) and the notices it shows
sanitizeImagePath(imagePath) ==
    IF imagePath = <<>> THEN [path |-> <<>>, notices |-> <<>>]
    ELSE SanitizeScheme(StripAppScheme(StripScheme(Trim(imagePath))))

\* ImageEventHandler.extractImagePath over the non-empty candidates of the
\* element, in their priority order: the first sanitised path (the empty
\* string for null), the index of the candidate it came from (0 for none)
\* and the notices shown on the way
RECURSIVE ExtractFrom(_, _, _)

ExtractStep(possiblePaths, i, shown, r) ==
    IF r.path # <<>>
    THEN [path |-> r.path, from |-> i, notices |-> shown \o r.notices]
    ELSE ExtractFrom(possiblePaths, i + 1, shown \o r.notices)

ExtractFrom(possiblePaths, i, shown) ==
    IF i > Len(possiblePaths)
    THEN [path |-> <<>>, from |-> 0, notices |-> shown]
    ELSE ExtractStep(possiblePaths, i, shown, sanitizeImagePath(possiblePaths[i]))

\* [...].filter(Boolean)
NonEmpty(candidates) == SelectSeq(candidates, LAMBDA c : c # <<>>)

\* An extraction that tries the candidates from the last to the first
extractImagePathLastFirst(candidates) ==
    ExtractFrom([i \in 1..Len(NonEmpty(candidates)) |->
                    NonEmpty(candidates)[Len(NonEmpty(candidates)) + 1 - i]], 1, <<>>)

extractImagePath(candidates) == ExtractFrom(NonEmpty(candidates), 1, <<>>)

supportedExtensions ==
    { <<".", "p", "n", "g">>,
      <<".", "j", "p", "g">>,
      <<".", "j", "p", "e", "g">>,
      <<".", "g", "i", "f">>,
      <<".", "w", "e", "b", "p">>,
      <<".", "b", "m", "p">>,
      <<".", "s", "v", "g">>,
      <<".", "i", "c", "o">>,
      <<".", "t", "i", "f", "f">>,
      <<".", "t", "i", "f">>,
      <<".", "a", "v", "i", "f">>,
      <<".", "h", "e", "i", "c">>,
      <<".", "h", "e", "i", "f">> }

MaxExtensionLength == 10

\* The extension test of isValidImageFormat on the lower-cased path
HasSupportedExtension(lowercasePath, lastDotIndex) ==
    /\ lastDotIndex # 0
    /\ lastDotIndex # Len(lowercasePath)
    /\ Len(lowercasePath) - lastDotIndex + 1 <= MaxExtensionLength
    /\ SubSeq(lowercasePath, lastDotIndex, Len(lowercasePath)) \in supportedExtensions

LowercasePath(imagePath) ==
    Trim(ToLowerCase(BeforeFirst(BeforeFirst(imagePath, "?"), "#")))

\* A format check that lets every non-empty path through
isValidImageFormatAny(imagePath) == imagePath # <<>>

\* ImageEventHandler.isValidImageFormat
isValidImageFormat(imagePath) ==
    /\ imagePath # <<>>
    /\ HasSupportedExtension(LowercasePath(imagePath),
                             LastIndexOf(LowercasePath(imagePath), "."))

\* A classification that knows img nodes only
isImageElementImgOnly(element) == element.tag = "img"

\* ImageEventHandler.isImageElement on an element given by its tag, whether
\* it carries the class image-embed and whether it has an img descendant
isImageElement(element) ==
    \/ element.tag = "img"
    \/ element.tag = "span" /\ element.embed
    \/ element.child

---------------------------------------------------------------------------
(* ErrorHandler: the keyword tests on an error message *)

permissionKeywords ==
    { <<"E", "A", "C", "C", "E", "S">>,
      <<"E", "P", "E", "R", "M">>,
      <<"p", "e", "r", "m", "i", "s", "s", "i", "o", "n", " ", "d", "e", "n", "i", "e", "d">>,
      <<"a", "c", "c", "e", "s", "s", " ", "d", "e", "n", "i", "e", "d">> }

notFoundKeywords ==
    { <<"E", "N", "O", "E", "N", "T">>,
      <<"f", "i", "l", "e", " ", "n", "o", "t", " ", "f", "o", "u", "n", "d">>,
      <<"n", "o", " ", "s", "u", "c", "h", " ", "f", "i", "l", "e">> }

\* keywords.some((keyword) => errorMessage.includes(keyword.toLowerCase()))
SomeKeywordIn(errorMessage, keywords) ==
    \E k \in keywords : IncludesStr(errorMessage, ToLowerCase(k))

\* ErrorHandler.isPermissionError
isPermissionError(message) == SomeKeywordIn(ToLowerCase(message), permissionKeywords)

\* ErrorHandler.isFileNotFoundError
isFileNotFoundError(message) == SomeKeywordIn(ToLowerCase(message), notFoundKeywords)

---------------------------------------------------------------------------
(* PathResolver *)

ResolverMaxInput == 1000
ResolverMaxResolved == 2000
ResolverMaxTraversal == 10

S_obsidian == <<".", "o", "b", "s", "i", "d", "i", "a", "n">>

\* PathResolver.isAbsolutePath
isAbsolutePath(plat, path) ==
    IF plat = "win32"
    THEN \/ Len(path) >= 3 /\ path[1] \in Letters /\ path[2] = ":" /\ path[3] \in {BS, "/"}
         \/ StartsWith(path, <<BS, BS>>)
    ELSE StartsWith(path, <<"/">>)

\* A resolver that takes the config directory for the vault root
vaultBasePathKept(configDir) == configDir

\* configDir.replace(/[/\\]\.obsidian$/, '')
vaultBasePath(configDir) ==
    IF EndsWith(configDir, <<"/">> \o S_obsidian) \/ EndsWith(configDir, <<BS>> \o S_obsidian)
    THEN SubSeq(configDir, 1, Len(configDir) - Len(S_obsidian) - 1)
    ELSE configDir

\* path.replace(/^\.\//, '')
StripDotSlash(path) == IF StartsWith(path, <<".", "/">>) THEN Drop(path, 2) ELSE path

\* PathResolver.resolveRelativePath; [ok |-> FALSE] stands for the Error it
\* throws when the vault base path is empty
ResolveAgainst(plat, base, path) ==
    IF base = <<>>
    THEN [ok |-> FALSE, value |-> <<>>]
    ELSE [ok |-> TRUE,
          value |-> normalize(plat, resolve(plat, join(plat, base, StripDotSlash(path))))]

resolveRelativePath(plat, configDir, path) ==
    ResolveAgainst(plat, vaultBasePath(configDir), path)

\* The control characters isValidResolvedPath rejects: 0-8, 11, 12, 14-31, 127
IsRejectedControlCode(n) ==
    \/ n >= 0 /\ n <= 8
    \/ n = 11
    \/ n = 12
    \/ n >= 14 /\ n <= 31
    \/ n = 127

\* PathResolver.isValidResolvedPath
isValidResolvedPath(path) ==
    /\ ~Includes(path, "NUL")
    /\ \A i \in 1..Len(path) : ~IsRejectedControlCode(CharCode(path[i]))
    /\ CountDotDot(path) <= ResolverMaxTraversal
    /\ ~MatchesAnyOf(path, InjectionChars)
    /\ ~LeadingRedirection(path)
    /\ ~VariableExpansion(path)
    /\ ~CommandSubstitution(path)

\* cleanPath.length > 1 && cleanPath.endsWith('/') ? cleanPath.slice(0, -1)
StripTrailingSlash(s) ==
    IF Len(s) > 1 /\ EndsWith(s, <<"/">>) THEN SubSeq(s, 1, Len(s) - 1) ELSE s

\* The cleaning steps at the head of resolveImagePath's try block
CleanPath(imagePath) ==
    StripTrailingSlash(CollapseSlashes(ReplaceBackslashes(Trim(imagePath))))

S_PermissionDenied == <<"E", "A", "C", "C", "E", "S", ":", " ", "p", "e", "r", "m", "i", "s", "s", "i", "o", "n", " ", "d", "e", "n", "i", "e", "d">>
S_IoError == <<"E", "I", "O", ":", " ", "i", "/", "o", " ", "e", "r", "r", "o", "r">>

\* What existsSync can do for a path: answer true, answer false, or (as the
\* code provides for) throw an error with the given message
DiskAnswers == {"present", "absent", "throws_permission", "throws_io"}

DiskErrorMessage(answer) ==
    IF answer = "throws_permission" THEN S_PermissionDenied ELSE S_IoError

\* An existence check that swallows every error without reporting any
validateFileExistsQuiet(answer, path) ==
    [exists |-> answer = "present", notices |-> <<>>]

\* PathResolver.validateFileExists under the answer existsSync gives
validateFileExists(answer, path) ==
    [exists |-> answer = "present",
     notices |-> IF answer \in {"throws_permission", "throws_io"}
                    /\ isPermissionError(DiskErrorMessage(answer))
                 THEN <<"PERMISSION_DENIED">>
                 ELSE <<>>]

\* The path resolveImagePath validates and checks: normalize(cleanPath) for
\* an absolute path, resolveRelativePath(cleanPath) for a relative one
ResolveClean(plat, configDir, cleanPath) ==
    IF isAbsolutePath(plat, cleanPath)
    THEN [ok |-> TRUE, value |-> normalize(plat, cleanPath)]
    ELSE resolveRelativePath(plat, configDir, cleanPath)

ResolvedCandidate(plat, configDir, imagePath) ==
    ResolveClean(plat, configDir, CleanPath(imagePath))

ResolutionFailed ==
    [path |-> <<>>, existsCalls |-> <<>>, notices |-> <<"PATH_RESOLUTION_FAILED">>]

\* A resolver that returns the path without asking the disk
ResolveExistingUnasked(path, check) ==
    [path |-> path, existsCalls |-> <<>>, notices |-> <<>>]

\* The end of resolveImagePath: the existence check and the return
ResolveExisting(path, check) ==
    IF check.exists
    THEN [path |-> path, existsCalls |-> <<path>>, notices |-> <<>>]
    ELSE [path |-> <<>>, existsCalls |-> <<path>>,
          notices |-> check.notices \o <<"FILE_NOT_FOUND">>]

\* The checks of resolveImagePath on the resolved path
ResolveValidated(answer, cand) ==
    IF ~cand.ok THEN ResolutionFailed
    ELSE IF Len(cand.value) > ResolverMaxResolved THEN ResolutionFailed
    ELSE IF ~isValidResolvedPath(cand.value) THEN ResolutionFailed
    ELSE ResolveExisting(cand.value, validateFileExists(answer, cand.value))

\* A resolver whose length check turns away the longest accepted input too
resolveImagePathShorter(plat, configDir, answer, imagePath) ==
    IF imagePath = <<>> \/ Trim(imagePath) = <<>> THEN ResolutionFailed
    ELSE IF Len(imagePath) >= ResolverMaxInput THEN ResolutionFailed
    ELSE IF Includes(imagePath, "NUL") THEN ResolutionFailed
    ELSE ResolveValidated(answer, ResolvedCandidate(plat, configDir, imagePath))

\* PathResolver.resolveImagePath: the returned path (the empty string for
\* null), the paths existsSync was called with, and the notices shown
resolveImagePath(plat, configDir, answer, imagePath) ==
    IF imagePath = <<>> \/ Trim(imagePath) = <<>> THEN ResolutionFailed
    ELSE IF Len(imagePath) > ResolverMaxInput THEN ResolutionFailed
    ELSE IF Includes(imagePath, "NUL") THEN ResolutionFailed
    ELSE ResolveValidated(answer, ResolvedCandidate(plat, configDir, imagePath))

---------------------------------------------------------------------------
(* SystemLauncher *)

LauncherMaxPath == 2000

\* A dispatch that knows only Windows
getOpenCommandTwoWay(plat) ==
    IF plat = "win32" THEN <<"s", "t", "a", "r", "t">>
    ELSE <<"x", "d", "g", "-", "o", "p", "e", "n">>

\* getOpenCommand
getOpenCommand(plat) ==
    CASE plat = "win32"  -> <<"s", "t", "a", "r", "t">>
      [] plat = "darwin" -> <<"o", "p", "e", "n">>
      [] plat = "linux"  -> <<"x", "d", "g", "-", "o", "p", "e", "n">>
      [] OTHER           -> <<"x", "d", "g", "-", "o", "p", "e", "n">>

\* isValidFilePath
isValidFilePath(filePath) ==
    /\ filePath # <<>>
    /\ ~Includes(filePath, "NUL")
    /\ Len(filePath) <= LauncherMaxPath
    /\ ~MatchesAnyOf(filePath, LauncherInjectionChars)
    /\ ~LeadingRedirection(filePath)
    /\ ~VariableExpansion(filePath)
    /\ ~CommandSubstitution(filePath)

\* The characters the POSIX branch of escapeFilePath puts a backslash before:
\* /(["\s'\\()[\]{}*?~`!&;<>|$])/
EscapedChars ==
    WhiteSpace \cup {DQ, "'", BS, "(", ")", "[", "]", "{", "}", "*", "?", "~",
                     BQ, "!", "&", ";", "<", ">", "|", "$"}

\* filePath.replace(/"/g, '""')
DoubleQuotes(s) ==
    Concat([i \in 1..Len(s) |-> IF s[i] = DQ THEN <<DQ, DQ>> ELSE <<s[i]>>])

\* filePath.replace(/(["\s'\\()[\]{}*?~`!&;<>|$])/g, '\\$1')
BackslashEscape(s) ==
    Concat([i \in 1..Len(s) |->
               IF s[i] \in EscapedChars THEN <<BS, s[i]>> ELSE <<s[i]>>])

\* The characters the earlier launcher escaped: /(["\s'$`\\()])/
EarlierEscapedChars == WhiteSpace \cup {DQ, "'", "$", BQ, BS, "(", ")"}

EarlierBackslashEscape(s) ==
    Concat([i \in 1..Len(s) |->
               IF s[i] \in EarlierEscapedChars THEN <<BS, s[i]>> ELSE <<s[i]>>])

\* escapeFilePath as the earlier launcher had it: no validation, the
\* narrower escape class
escapeFilePathEarlier(plat, filePath) ==
    IF plat = "win32"
    THEN [ok |-> TRUE, value |-> <<DQ>> \o DoubleQuotes(filePath) \o <<DQ>>]
    ELSE [ok |-> TRUE, value |-> EarlierBackslashEscape(filePath)]

\* escapeFilePath; [ok |-> FALSE] stands for the Error it throws for a path
\* that fails isValidFilePath
escapeFilePath(plat, filePath) ==
    IF ~isValidFilePath(filePath) THEN [ok |-> FALSE, value |-> <<>>]
    ELSE IF plat = "win32"
    THEN [ok |-> TRUE, value |-> <<DQ>> \o DoubleQuotes(filePath) \o <<DQ>>]
    ELSE [ok |-> TRUE, value |-> BackslashEscape(filePath)]

S_InvalidPath == <<"F", "i", "l", "e", " ", "p", "a", "t", "h", " ", "c", "o", "n", "t", "a", "i", "n", "s", " ", "i", "n", "v", "a", "l", "i", "d", " ", "o", "r", " ", "p", "o", "t", "e", "n", "t", "i", "a", "l", "l", "y", " ", "d", "a", "n", "g", "e", "r", "o", "u", "s", " ", "c", "h", "a", "r", "a", "c", "t", "e", "r", "s">>
S_FailedToExecute == <<"F", "a", "i", "l", "e", "d", " ", "t", "o", " ", "e", "x", "e", "c", "u", "t", "e", " ", "s", "y", "s", "t", "e", "m", " ", "c", "o", "m", "m", "a", "n", "d", ":", " ">>

\* The command line executeCommand hands to execAsync for one argument
fullCommand(plat, command, arg) ==
    IF command = getOpenCommand("win32") /\ plat = "win32"
    THEN command \o <<" ", DQ, DQ, " ">> \o arg
    ELSE command \o <<" ">> \o arg

\* A classification that looks for the not-found keywords first
LaunchFailureNoticeNotFoundFirst(message) ==
    IF isFileNotFoundError(message) THEN "FILE_NOT_FOUND"
    ELSE IF isPermissionError(message) THEN "PERMISSION_DENIED"
    ELSE "SYSTEM_ERROR"

\* The catch block of openWithDefaultApp: the notice for an Error with the
\* given message
LaunchFailureNotice(message) ==
    IF isPermissionError(message) THEN "PERMISSION_DENIED"
    ELSE IF isFileNotFoundError(message) THEN "FILE_NOT_FOUND"
    ELSE "SYSTEM_ERROR"

---------------------------------------------------------------------------
(* The inputs: the platform, the host's configuration directory, the       *)
(* settings, and the raw image reference under handling.                   *)

Platforms == {"win32", "darwin", "linux", "freebsd"}

\* The vault root directory of the host
VaultRootOf(plat) ==
    IF plat = "win32" THEN <<"C", ":", BS, "v">> ELSE <<"/", "v">>

\* app.vault.configDir as the host gives it: the vault root followed by the
\* .obsidian segment
ConfigDirOf(plat) ==
    VaultRootOf(plat) \o (IF plat = "win32" THEN <<BS>> ELSE <<"/">>)
                      \o <<".", "o", "b", "s", "i", "d", "i", "a", "n">>

DEFAULT_SETTINGS == [showSuccessNotifications |-> FALSE, enableDebugLogging |-> FALSE]

\* How a reference starts: relative, absolute, with a scheme, with a drive
RefPrefixes ==
    { <<>>,
      <<"/">>,
      <<".", "/">>,
      <<" ">>,
      <<"h", "t", "t", "p", ":", "/", "/", "h", "/">>,
      <<"h", "t", "t", "p", "s", ":", "/", "/", "h", "/">>,
      <<"d", "a", "t", "a", ":">>,
      <<"b", "l", "o", "b", ":">>,
      <<"f", "i", "l", "e", ":", "/", "/">>,
      <<"f", "i", "l", "e", ":", "/", "/", "/">>,
      <<"a", "p", "p", ":", "/", "/", "h", "/">>,
      <<"C", ":", "/">>,
      <<"C", ":", BS>>,
      <<BS, BS, "s", BS>> }

\* The directory part of a reference
RefDirs ==
    { <<"a", "/">>,
      <<"a", ";", "b", "/", ".", ".", "/">> }

\* The file part of a reference
RefFiles ==
    { <<"c", ".", "p", "n", "g">>,
      <<"c", ".", "t", "x", "t">>,
      <<"c", ";", "d", ".", "p", "n", "g">>,
      <<"c", "(", "d", ")", ".", "p", "n", "g">>,
      <<"c", " ", "d", ".", "p", "n", "g">>,
      <<"c", DQ, "d", ".", "p", "n", "g">>,
      <<"c", "*", "d", ".", "p", "n", "g">>,
      <<"c", ".", "P", "N", "G", "?", "v", "=", "1">>,
      <<"c", "%", "3", "B", "d", ".", "p", "n", "g">>,
      <<"c", "%", "2", "0", "d", ".", "p", "n", "g">> }

\* References outside that pattern
RefExtras ==
    { <<>>,
      <<" ">>,
      <<".">>,
      <<".", "/">>,
      <<".", ".", "/">>,
      <<"c", ".", "p", "n", "g", "/">>,
      <<"c", "NUL", "d", ".", "p", "n", "g">>,
      <<"c", "BEL", "d", ".", "p", "n", "g">>,
      <<"c", "LF", "d", ".", "p", "n", "g">>,
      <<"<", "c", ".", "p", "n", "g">>,
      <<"$", "{", "a", "}", ".", "p", "n", "g">>,
      <<BQ, "a", BQ, ".", "p", "n", "g">>,
      <<"c", ".", "p", "n", "g", "?", "x", ";", "y">>,
      <<"c", ".", "p", "n", "g", "#", "$">>,
      <<"%">>,
      <<"c", "%", "z", "z", ".", "p", "n", "g">>,
      <<"%", "2", "E", "%", "2", "E", "/", "c", ".", "p", "n", "g">>,
      <<"a", "/", ".", "/", "b", "/", "/", "c", ".", "p", "n", "g">>,
      <<"a", BS, "b", ".", "p", "n", "g">>,
      <<"a", ".", ".", "b", ".", "p", "n", "g">> }

\* The longest run of leading "../" segments drawn
MaxUps == 11

RECURSIVE Ups(_)
Ups(k) == IF k = 0 THEN <<>> ELSE <<".", ".", "/">> \o Ups(k - 1)

\* What follows a run of "../" segments
UpTails ==
    { <<"c", ".", "p", "n", "g">>,
      <<"e", "t", "c", "/", "p", "a", "s", "s", "w", "d">> }

\* A file name of the given length
LongRef(n) == [i \in 1..(n - 4) |-> "a"] \o <<".", "p", "n", "g">>

\* References at and just over the length the resolver and the handler accept
LongRefs == {LongRef(ResolverMaxInput), LongRef(ResolverMaxInput + 1)}

RawRefs ==
    {p \o f : p \in RefPrefixes, f \in RefFiles}
    \cup {d \o f : d \in RefDirs, f \in RefFiles}
    \cup RefExtras
    \cup LongRefs
    \cup {Ups(k) \o t : k \in 1..MaxUps, t \in UpTails}

\* The clicked element: its tag, whether it carries the class image-embed,
\* and whether it has an img descendant
Elements ==
    { [tag |-> "img",  embed |-> FALSE, child |-> FALSE],
      [tag |-> "span", embed |-> TRUE,  child |-> FALSE],
      [tag |-> "span", embed |-> FALSE, child |-> FALSE],
      [tag |-> "div",  embed |-> FALSE, child |-> TRUE],
      [tag |-> "div",  embed |-> FALSE, child |-> FALSE] }

NoElement == [tag |-> "none", embed |-> FALSE, child |-> FALSE]

\* The alt attribute of the image; its src attribute is the raw reference
AltRefs == { <<>>, <<"c", ".", "p", "n", "g">> }

\* The alt, data-src, data-path, data-href and title attributes of the
\* image, the empty string for an absent one: the last four absent; or a
\* data-src that is a data: URL before a data-href and a title; or a blank
\* alt before a data-src and a data-path
OtherAttrs ==
    { <<alt, <<>>, <<>>, <<>>, <<>> >> : alt \in AltRefs }
    \cup { << <<>>, <<"d", "a", "t", "a", ":", "x">>, <<>>,
              <<"h", ".", "p", "n", "g">>, <<"t", ".", "p", "n", "g">> >>,
            << <<" ">>, <<"d", ".", "p", "n", "g">>, <<"p", ".", "p", "n", "g">>,
               <<>>, <<>> >> }

\* How the child process started by exec ends: "ok", or the message of the
\* error exec rejects with
ExecErrors ==
    { <<"s", "p", "a", "w", "n", " ", "E", "A", "C", "C", "E", "S">>,
      <<"E", "N", "O", "E", "N", "T", ":", " ", "n", "o", " ", "s", "u", "c", "h", " ", "f", "i", "l", "e">>,
      <<"e", "x", "i", "t", " ", "c", "o", "d", "e", " ", "1">>,
      <<"A", "c", "c", "e", "s", "s", " ", "D", "e", "n", "i", "e", "d">>,
      <<"E", "N", "O", "E", "N", "T", " ", "E", "P", "E", "R", "M">> }

---------------------------------------------------------------------------
(* State *)

VARIABLES
    platform,     \* process.platform / os.platform()
    configDir,    \* app.vault.configDir
    settings,     \* ErrorHandler's settings
    raw,          \* the raw reference: the argument of a direct call of
                  \* resolveImagePath, the src attribute of a clicked image
    op,           \* the entry point that ran: "none", "resolve" or "click"
    pc,           \* "ready", "exec" (suspended at await execAsync) or "done"
    target,       \* the element of the double-click event
    candidates,   \* the attribute values extractImagePath was given
    extracted,    \* [path, from]: what extractImagePath returned
    disk,         \* the answer existsSync gave, "uncalled" if it was not called
    existsCalls,  \* the paths existsSync was called with
    resolved,     \* what resolveImagePath returned (the empty string for null)
    shell,        \* the command lines handed to execAsync
    notices,      \* the notices shown, in order
    prevented,    \* preventDefault / stopPropagation were called on the event
    outcome,      \* how the invocation ended
    launchError,  \* the message of the Error openWithDefaultApp caught
                  \* (the empty string when it caught none)
    promise,      \* the promise handleImageDoubleClick returned: "none",
                  \* "pending", "fulfilled" or "rejected"
    again,        \* what a second direct call of resolveImagePath on the same
                  \* reference returned and did, once it has been made
    instances,    \* the plugin instances the host has created, in order:
                  \* [stage, unloaded], stage "loading" while onload waits for
                  \* loadSettings and "loaded" once it has gone on
    listeners,    \* the instances whose handler is a dblclick listener of
                  \* the document
    inflight,     \* the clicks whose handler waits for its child process
    finished,     \* the clicks whose handler has returned, in that order
    launched      \* the command lines handed to execAsync by those clicks

vars == <<platform, configDir, settings, raw, op, pc, target, candidates,
          extracted, disk, existsCalls, resolved, shell, notices, prevented,
          outcome, launchError, promise, again,
          instances, listeners, inflight, finished, launched>>

\* The plugin, its document listeners and the clicks under way
hostVars == <<instances, listeners, inflight, finished, launched>>

\* One invocation and what it reads
invocationVars ==
    <<platform, configDir, settings, raw, op, pc, target, candidates,
      extracted, disk, existsCalls, resolved, shell, notices, prevented,
      outcome, launchError, promise, again>>

\* The plugin after onload has completed: its handler is the one listener
OneLoaded == <<[stage |-> "loaded", unloaded |-> FALSE]>>

NoExtraction == [path |-> <<>>, from |-> 0]

NoRepeat == [done |-> FALSE, path |-> <<>>, existsCalls |-> <<>>, notices |-> <<>>]

Init ==
    /\ platform \in Platforms
    /\ configDir = ConfigDirOf(platform)
    /\ settings = DEFAULT_SETTINGS
    /\ raw \in RawRefs
    /\ op = "none"
    /\ pc = "ready"
    /\ target = NoElement
    /\ candidates = <<>>
    /\ extracted = NoExtraction
    /\ disk = "uncalled"
    /\ existsCalls = <<>>
    /\ resolved = <<>>
    /\ shell = <<>>
    /\ notices = <<>>
    /\ prevented = FALSE
    /\ outcome = "none"
    /\ launchError = <<>>
    /\ promise = "none"
    /\ again = NoRepeat
    /\ instances = OneLoaded
    /\ listeners = {1}
    /\ inflight = <<>>
    /\ finished = <<>>
    /\ launched = <<>>

\* The effect of a direct call whose result is r
ResolveReturns(answer, r) ==
    /\ resolved' = r.path
    /\ existsCalls' = r.existsCalls
    /\ notices' = r.notices
    /\ disk' = IF r.existsCalls = <<>> THEN "uncalled" ELSE answer
    /\ outcome' = IF r.path # <<>> THEN "resolved" ELSE "unresolved"

\* A direct call of PathResolver.resolveImagePath(raw)
ResolveCall ==
    /\ pc = "ready"
    /\ UNCHANGED hostVars
    /\ \E answer \in DiskAnswers :
          ResolveReturns(answer, resolveImagePath(platform, configDir, answer, raw))
    /\ op' = "resolve"
    /\ pc' = "done"
    /\ UNCHANGED <<platform, configDir, settings, raw, target, candidates,
                   extracted, shell, prevented, launchError, promise, again>>

\* A resolver that keeps the directory of its last result as its base
ResolveRepeatRebased(plat, cfg, answer, imagePath, first) ==
    resolveImagePath(plat, IF first # <<>> THEN first ELSE cfg, answer, imagePath)

\* resolveImagePath called again on the same PathResolver: the object has
\* the one field `app`, assigned in the constructor, and the method reads
\* nothing the first call wrote, so its result `first` plays no part
ResolveRepeat(plat, cfg, answer, imagePath, first) ==
    resolveImagePath(plat, cfg, answer, imagePath)

\* What the second call returned and did
Repeated(r) ==
    [done |-> TRUE, path |-> r.path, existsCalls |-> r.existsCalls,
     notices |-> r.notices]

\* A second direct call of resolveImagePath(raw), the file system being as
\* the first call found it
ResolveAgain ==
    /\ pc = "done"
    /\ UNCHANGED hostVars
    /\ op = "resolve"
    /\ ~again.done
    /\ \E answer \in DiskAnswers :
          /\ disk \in {"uncalled", answer}
          /\ again' = Repeated(ResolveRepeat(platform, configDir, answer, raw, resolved))
    /\ UNCHANGED <<platform, configDir, settings, raw, op, pc, target,
                   candidates, extracted, disk, existsCalls, resolved, shell,
                   notices, prevented, outcome, launchError, promise>>

\* How a click that stopped before extraction ends
ClickEnds(stopped, shown, how) ==
    [prevented |-> stopped, candidates |-> <<>>, extracted |-> NoExtraction,
     existsCalls |-> <<>>, resolved |-> <<>>, shell |-> <<>>,
     notices |-> shown, pc |-> "done", outcome |-> how,
     launchError |-> <<>>, promise |-> "fulfilled"]

\* How a click that stopped after extraction, before resolution, ends
ExtractionEnds(attrs, ext, shown, how) ==
    [prevented |-> TRUE, candidates |-> attrs,
     extracted |-> [path |-> ext.path, from |-> ext.from],
     existsCalls |-> <<>>, resolved |-> <<>>, shell |-> <<>>,
     notices |-> ext.notices \o shown, pc |-> "done", outcome |-> how,
     launchError |-> <<>>, promise |-> "fulfilled"]

\* A handler whose body is not wrapped in try/catch: the error leaves it
HandlerWithoutCatch == [notices |-> <<>>, promise |-> "rejected"]

\* The catch block of handleImageDoubleClick: a generic error is reported
\* and the function returns
HandlerCatch == [notices |-> <<"GENERIC_ERROR">>, promise |-> "fulfilled"]

\* The synchronous part of openWithDefaultApp(filePath), up to the call of
\* execAsync, and what the handler does next: when escapeFilePath throws,
\* the catch block of openWithDefaultApp shows the notice of the error's
\* class and rethrows, and the error reaches the handler's catch block;
\* otherwise the command line is handed to execAsync and the handler waits
HandleLaunch(plat, attrs, ext, res, escaped) ==
    IF ~escaped.ok
    THEN [prevented |-> TRUE, candidates |-> attrs,
          extracted |-> [path |-> ext.path, from |-> ext.from],
          existsCalls |-> res.existsCalls, resolved |-> res.path, shell |-> <<>>,
          notices |-> ext.notices \o res.notices
                      \o <<LaunchFailureNotice(S_InvalidPath)>> \o HandlerCatch.notices,
          pc |-> "done", outcome |-> "launch_rejected",
          launchError |-> S_InvalidPath, promise |-> HandlerCatch.promise]
    ELSE [prevented |-> TRUE, candidates |-> attrs,
          extracted |-> [path |-> ext.path, from |-> ext.from],
          existsCalls |-> res.existsCalls, resolved |-> res.path,
          shell |-> <<fullCommand(plat, getOpenCommand(plat), escaped.value)>>,
          notices |-> ext.notices \o res.notices,
          pc |-> "exec", outcome |-> "launching",
          launchError |-> <<>>, promise |-> "pending"]

\* handleImageDoubleClick from the result of resolveImagePath on
HandleResolved(plat, attrs, ext, res) ==
    IF res.path = <<>>
    THEN [prevented |-> TRUE, candidates |-> attrs,
          extracted |-> [path |-> ext.path, from |-> ext.from],
          existsCalls |-> res.existsCalls, resolved |-> <<>>, shell |-> <<>>,
          notices |-> ext.notices \o res.notices,
          pc |-> "done", outcome |-> "unresolved",
          launchError |-> <<>>, promise |-> "fulfilled"]
    ELSE HandleLaunch(plat, attrs, ext, res, escapeFilePath(plat, res.path))

\* handleImageDoubleClick from the result of extractImagePath on
HandleExtracted(plat, cfg, attrs, answer, ext) ==
    IF ext.path = <<>>
    THEN ExtractionEnds(attrs, ext, <<"GENERIC_ERROR">>, "no_path")
    ELSE IF ~isValidImageFormat(ext.path)
    THEN ExtractionEnds(attrs, ext, <<"INVALID_IMAGE_FORMAT">>, "invalid_format")
    ELSE IF Len(ext.path) > HandlerMaxPath
    THEN ExtractionEnds(attrs, ext, <<"GENERIC_ERROR">>, "too_long")
    ELSE IF isDangerousPath(ext.path)
    THEN ExtractionEnds(attrs, ext, <<"GENERIC_ERROR">>, "dangerous")
    ELSE HandleResolved(plat, attrs, ext, resolveImagePath(plat, cfg, answer, ext.path))

\* ImageEventHandler.handleImageDoubleClick up to its first suspension (the
\* await of execAsync) or its return, for an event on element `el` whose
\* image has the attribute values `attrs`, under the answer of existsSync
HandleClick(plat, cfg, el, attrs, answer) ==
    IF ~isImageElement(el)
    THEN ClickEnds(FALSE, <<>>, "not_image")
    ELSE IF el.tag # "img" /\ ~el.child
    THEN ClickEnds(TRUE, <<"GENERIC_ERROR">>, "no_image_element")
    ELSE HandleExtracted(plat, cfg, attrs, answer, extractImagePath(attrs))

\* The state the handler leaves when it returns or suspends
ClickLeaves(el, answer, h) ==
    /\ target' = el
    /\ prevented' = h.prevented
    /\ candidates' = h.candidates
    /\ extracted' = h.extracted
    /\ existsCalls' = h.existsCalls
    /\ disk' = IF h.existsCalls = <<>> THEN "uncalled" ELSE answer
    /\ resolved' = h.resolved
    /\ shell' = h.shell
    /\ notices' = h.notices
    /\ pc' = h.pc
    /\ outcome' = h.outcome
    /\ launchError' = h.launchError
    /\ promise' = h.promise

\* A double-click event reaches handleImageDoubleClick
DoubleClick ==
    /\ pc = "ready"
    /\ UNCHANGED hostVars
    /\ \E el \in Elements, others \in OtherAttrs, answer \in DiskAnswers :
          ClickLeaves(el, answer,
                      HandleClick(platform, configDir, el, <<raw>> \o others, answer))
    /\ op' = "click"
    /\ UNCHANGED <<platform, configDir, settings, raw, again>>

\* A handleSuccess that does not look at the settings
SuccessNoticesAlways(s) == <<"SUCCESS">>

\* ErrorHandler.handleSuccess: the notice it shows under the settings
SuccessNotices(s) ==
    IF s.showSuccessNotifications THEN <<"SUCCESS">> ELSE <<>>

\* The child process ended without error: executeCommand and
\* openWithDefaultApp return, the handler reports success and returns
ExecSucceeds ==
    /\ pc = "exec"
    /\ UNCHANGED hostVars
    /\ notices' = notices \o SuccessNotices(settings)
    /\ outcome' = "success"
    /\ pc' = "done"
    /\ promise' = "fulfilled"
    /\ UNCHANGED <<platform, configDir, settings, raw, op, target, candidates,
                   extracted, disk, existsCalls, resolved, shell, prevented,
                   launchError, again>>

\* A launcher that swallows the error of exec, after which the handler
\* goes on to report success
ExecFailsSwallowed(message) ==
    /\ launchError' = message
    /\ notices' = notices \o <<"SUCCESS">>
    /\ promise' = "fulfilled"

\* exec rejects: executeCommand reports the command failure and throws an
\* Error with the given message, openWithDefaultApp classifies it and
\* rethrows, and the error reaches the handler's catch block
ExecFailsWith(message) ==
    /\ launchError' = message
    /\ notices' = notices \o <<"SYSTEM_COMMAND_FAILED", LaunchFailureNotice(message)>>
                          \o HandlerCatch.notices
    /\ promise' = HandlerCatch.promise

ExecFails ==
    /\ pc = "exec"
    /\ UNCHANGED hostVars
    /\ \E message \in ExecErrors : ExecFailsWith(S_FailedToExecute \o message)
    /\ outcome' = "launch_failed"
    /\ pc' = "done"
    /\ UNCHANGED <<platform, configDir, settings, raw, op, target, candidates,
                   extracted, disk, existsCalls, resolved, shell, prevented,
                   again>>

\* The user flips "Show success notifications" in the settings tab: the
\* settings object ErrorHandler holds is the plugin's, so the change is seen
\* by a handler that is waiting for its child process
SettingsToggle ==
    /\ pc \in {"ready", "exec"}
    /\ UNCHANGED hostVars
    /\ settings' = [settings EXCEPT !.showSuccessNotifications = ~@]
    /\ UNCHANGED <<platform, configDir, raw, op, pc, target, candidates,
                   extracted, disk, existsCalls, resolved, shell, notices,
                   prevented, outcome, launchError, promise, again>>

\* The invocation is over; the listener stays registered and the next
\* event on the same image finds the settings as they are now
NextEvent ==
    /\ pc = "done"
    /\ UNCHANGED hostVars
    /\ op' = "none"
    /\ pc' = "ready"
    /\ target' = NoElement
    /\ candidates' = <<>>
    /\ extracted' = NoExtraction
    /\ disk' = "uncalled"
    /\ existsCalls' = <<>>
    /\ resolved' = <<>>
    /\ shell' = <<>>
    /\ notices' = <<>>
    /\ prevented' = FALSE
    /\ outcome' = "none"
    /\ launchError' = <<>>
    /\ promise' = "none"
    /\ again' = NoRepeat
    /\ UNCHANGED <<platform, configDir, settings, raw>>

Next ==
    \/ ResolveCall
    \/ ResolveAgain
    \/ DoubleClick
    \/ ExecSucceeds
    \/ ExecFails
    \/ SettingsToggle
    \/ NextEvent

Spec == Init /\ [][Next]_vars

---------------------------------------------------------------------------
(* The plugin in its host: the host enables and disables it, onload is     *)
(* asynchronous, and double clicks arrive while earlier ones still wait    *)
(* for their child process.                                                *)

\* How many times the host enables the plugin
MaxLoads == 1

\* How many double clicks arrive
MaxClicks == 2

\* The images clicked: the src attribute of each and what existsSync
\* answers for it
ClickInputs ==
    { << <<"c", ".", "p", "n", "g">>, "present" >>,
      << <<"c", " ", "d", ".", "p", "n", "g">>, "present" >>,
      << <<"c", ".", "p", "n", "g">>, "absent" >> }

\* The hosts the plugin is enabled on
HostPlatforms == {"win32", "linux"}

\* The host has enabled the plugin and not disabled it since
PluginEnabled == \E i \in 1..Len(instances) : ~instances[i].unloaded

HostInit ==
    /\ platform \in HostPlatforms
    /\ configDir = ConfigDirOf(platform)
    /\ settings = DEFAULT_SETTINGS
    /\ raw = <<>>
    /\ op = "none"
    /\ pc = "ready"
    /\ target = NoElement
    /\ candidates = <<>>
    /\ extracted = NoExtraction
    /\ disk = "uncalled"
    /\ existsCalls = <<>>
    /\ resolved = <<>>
    /\ shell = <<>>
    /\ notices = <<>>
    /\ prevented = FALSE
    /\ outcome = "none"
    /\ launchError = <<>>
    /\ promise = "none"
    /\ again = NoRepeat
    /\ instances = <<>>
    /\ listeners = {}
    /\ inflight = <<>>
    /\ finished = <<>>
    /\ launched = <<>>

\* The host enables the plugin: it creates an instance and calls onload,
\* which runs up to `await this.loadSettings()`
Onload ==
    /\ Len(instances) < MaxLoads
    /\ ~PluginEnabled
    /\ instances' = Append(instances, [stage |-> "loading", unloaded |-> FALSE])
    /\ UNCHANGED <<listeners, inflight, finished, launched>>
    /\ UNCHANGED invocationVars

\* loadSettings has settled and onload goes on: it creates the event
\* handler and registers its bound function as a capturing dblclick
\* listener of the document
OnloadResumes ==
    /\ \E i \in 1..Len(instances) :
          /\ instances[i].stage = "loading"
          /\ instances' = [instances EXCEPT ![i].stage = "loaded"]
          /\ listeners' = listeners \cup {i}
    /\ UNCHANGED <<inflight, finished, launched>>
    /\ UNCHANGED invocationVars

\* The host disables the plugin: onunload removes the listener of the
\* event handler if this.eventHandler has been assigned
Onunload ==
    /\ \E i \in 1..Len(instances) :
          /\ ~instances[i].unloaded
          /\ instances' = [instances EXCEPT ![i].unloaded = TRUE]
          /\ listeners' = IF instances[i].stage = "loaded"
                          THEN listeners \ {i}
                          ELSE listeners
    /\ UNCHANGED <<inflight, finished, launched>>
    /\ UNCHANGED invocationVars

\* A handler that keeps the resolved path in a field all clicks share
PathAfterAwaitShared(own, pending) == pending[Len(pending)].resolved

\* The path the handler passes to handleSuccess after the await: its local
\* constant resolvedPath, whatever other handlers are pending
PathAfterAwait(own, pending) == own

\* What a handler that ran up to its return or its await leaves of a click
\* on an image with the given src
Dispatched(ref, answer, h) ==
    IF h.pc = "exec"
    THEN /\ inflight' = Append(inflight,
                               [ref |-> ref, answer |-> answer, live |-> PluginEnabled,
                                waiting |-> inflight # <<>>, resolved |-> h.resolved, command |-> h.shell,
                                outcome |-> h.outcome, reported |-> <<>>])
         /\ launched' = launched \o h.shell
         /\ finished' = finished
    ELSE /\ finished' = Append(finished,
                               [ref |-> ref, answer |-> answer, live |-> PluginEnabled,
                                waiting |-> inflight # <<>>, resolved |-> h.resolved, command |-> h.shell,
                                outcome |-> h.outcome, reported |-> <<>>])
         /\ UNCHANGED <<inflight, launched>>

\* A double click on an image reaches the document: the listener
\* registered first handles it and stops the event for the others
HostClick ==
    /\ listeners # {}
    /\ Len(inflight) + Len(finished) < MaxClicks
    /\ \E input \in ClickInputs :
          Dispatched(input[1], input[2],
                     HandleClick(platform, configDir,
                                 [tag |-> "img", embed |-> FALSE, child |-> FALSE],
                                 <<input[1], <<>>, <<>>, <<>>, <<>>, <<>> >>, input[2]))
    /\ UNCHANGED <<instances, listeners>>
    /\ UNCHANGED invocationVars

\* The sequence without its i-th element
Without(seq, i) == SubSeq(seq, 1, i - 1) \o SubSeq(seq, i + 1, Len(seq))

\* The child process of one of the waiting clicks ends, well or not, and
\* the handler of that click goes on to its end
ChildExits ==
    /\ \E i \in 1..Len(inflight), ok \in BOOLEAN :
          /\ finished' = Append(finished,
                [inflight[i] EXCEPT
                    !.outcome = IF ok THEN "success" ELSE "launch_failed",
                    !.reported = IF ok THEN PathAfterAwait(inflight[i].resolved, inflight)
                                 ELSE <<>>])
          /\ inflight' = Without(inflight, i)
    /\ UNCHANGED <<instances, listeners, launched>>
    /\ UNCHANGED invocationVars

HostNext ==
    \/ Onload
    \/ OnloadResumes
    \/ Onunload
    \/ HostClick
    \/ ChildExits

HostSpec == HostInit /\ [][HostNext]_vars

---------------------------------------------------------------------------
(* Properties *)

\* A notice of the given kind was shown
Shown(kind) == \E i \in 1..Len(notices) : notices[i] = kind

\* resolveImagePath classifies its argument after cleaning it
IsRelativeRef(plat, ref) == ~isAbsolutePath(plat, CleanPath(ref))

\* path lies under the directory root
Under(path, root, plat) ==
    \/ path = root
    \/ StartsWith(path, root \o (IF plat = "win32" THEN <<BS>> ELSE <<"/">>))

\* The raw reference carries what the resolver's rules call dangerous
CarriesDangerous(ref) ==
    \/ Includes(ref, "NUL")
    \/ MatchesAnyOf(ref, {";", "&", "|", BQ, "$"})
    \/ CountDotDot(ref) > 10

\* C1: a direct call of resolveImagePath on a reference that contains a null
\* byte, one of ; & | ` $, or more than 10 occurrences of "..", returns no
\* path with the resolution-failed notice and never calls existsSync, also
\* when normalisation would remove the offending part
C1_DangerousNeverChecked ==
    (op = "resolve" /\ CarriesDangerous(raw))
        => /\ resolved = <<>>
           /\ existsCalls = <<>>
           /\ notices = <<"PATH_RESOLUTION_FAILED">>

\* The reference resolveImagePath was called with
GivenRef == IF op = "resolve" THEN raw ELSE extracted.path

\* C3: for a relative reference, the path resolveImagePath returns, and every
\* path existsSync is called with and every launched path, lies under the
\* vault root
C3_StaysInVault ==
    (op \in {"resolve", "click"} /\ GivenRef # <<>> /\ IsRelativeRef(platform, GivenRef))
        => /\ resolved # <<>> => Under(resolved, VaultRootOf(platform), platform)
           /\ \A i \in 1..Len(existsCalls) :
                 Under(existsCalls[i], VaultRootOf(platform), platform)

EtcPasswd == Ups(3) \o <<"e", "t", "c", "/", "p", "a", "s", "s", "w", "d">>

\* C4: resolveImagePath("../../../etc/passwd") fails with the
\* resolution-failed (dangerous path) notice and never calls existsSync
C4_EtcPasswdRejected ==
    (op = "resolve" /\ raw = EtcPasswd)
        => /\ resolved = <<>>
           /\ existsCalls = <<>>
           /\ notices = <<"PATH_RESOLUTION_FAILED">>

\* The characters a POSIX shell gives a meaning to: quotes, white space,
\* backslash, parentheses, brackets, braces, glob characters, punctuation
ShellSpecial ==
    {" ", "TAB", "LF", "VT", "FF", "CR"}
    \cup {DQ, "'", BQ, BS, "(", ")", "[", "]", "{", "}",
          "*", "?", "~", "!", "&", ";", "<", ">", "|", "$"}

\* Every shell-special character of the word is preceded by a backslash
\* that escapes it: a backslash escapes the next character when an even
\* number of backslashes comes before it, and none is left dangling
ProperlyEscaped(s) ==
    /\ \A i \in 1..Len(s) :
          (s[i] \in ShellSpecial /\ s[i] # BS) => RunBefore(s, i, BS) % 2 = 1
    /\ RunBefore(s, Len(s) + 1, BS) % 2 = 0

\* What the shell reads a properly escaped word as: the escaping
\* backslashes are dropped
ShellReads(s) ==
    Concat([i \in 1..Len(s) |->
               IF s[i] = BS /\ RunBefore(s, i, BS) % 2 = 0 THEN <<>> ELSE <<s[i]>>])

\* Every double quote of the string is one of a pair
QuotesDoubled(s) ==
    \A i \in 1..Len(s) :
        (s[i] = DQ /\ (i = Len(s) \/ s[i + 1] # DQ)) => RunBefore(s, i, DQ) % 2 = 1

\* The string with each pair of double quotes read as one
QuotesHalved(s) ==
    Concat([i \in 1..Len(s) |->
               IF s[i] = DQ /\ RunBefore(s, i, DQ) % 2 = 1 THEN <<>> ELSE <<s[i]>>])

\* The open command of the platform, up to its one argument
OpenPrefix(plat) ==
    CASE plat = "win32"  -> <<"s", "t", "a", "r", "t", " ", DQ, DQ, " ">>
      [] plat = "darwin" -> <<"o", "p", "e", "n", " ">>
      [] OTHER           -> <<"x", "d", "g", "-", "o", "p", "e", "n", " ">>

\* arg is one argument that stands for path on the platform
OneArgumentFor(plat, arg, path) ==
    IF plat = "win32"
    THEN /\ Len(arg) >= 2
         /\ arg[1] = DQ
         /\ arg[Len(arg)] = DQ
         /\ QuotesDoubled(SubSeq(arg, 2, Len(arg) - 1))
         /\ QuotesHalved(SubSeq(arg, 2, Len(arg) - 1)) = path
    ELSE /\ ProperlyEscaped(arg)
         /\ ShellReads(arg) = path

\* C2: in the click-handling chain, the string handed to the shell is the
\* platform's open command followed by exactly one argument: on POSIX the
\* path with every shell-special character preceded by a backslash, on
\* Windows the path in one pair of double quotes with every embedded double
\* quote doubled; a path that fails the launcher's validation never reaches
\* the shell
C2_NoCommandInjection ==
    /\ (op = "click" /\ shell # <<>>)
          => /\ Len(shell) = 1
             /\ isValidFilePath(resolved)
             /\ StartsWith(shell[1], OpenPrefix(platform))
             /\ OneArgumentFor(platform,
                               Drop(shell[1], Len(OpenPrefix(platform))), resolved)
    /\ (op = "click" /\ resolved # <<>> /\ ~isValidFilePath(resolved))
          => shell = <<>> /\ outcome = "launch_rejected"

\* A POSIX launch of a path with a shell-special character
C2_Witness ==
    /\ op = "click"
    /\ platform = "linux"
    /\ shell # <<>>
    /\ \E i \in 1..Len(resolved) : resolved[i] \in ShellSpecial

\* C9: the command issued depends on the OS identifier alone: start "" <path>
\* on win32, open <path> on darwin, xdg-open <path> on every other identifier
C9_PlatformDispatch ==
    (op = "click" /\ outcome \in {"launching", "success", "launch_failed"})
        => /\ Len(shell) = 1
           /\ shell[1] =
                 (CASE platform = "win32"  -> <<"s", "t", "a", "r", "t", " ", DQ, DQ, " ">>
                    [] platform = "darwin" -> <<"o", "p", "e", "n", " ">>
                    [] OTHER -> <<"x", "d", "g", "-", "o", "p", "e", "n", " ">>)
                 \o escapeFilePath(platform, resolved).value

\* A launch on each kind of platform is observed; this one is on macOS
C9_Witness ==
    /\ op = "click"
    /\ platform = "darwin"
    /\ shell # <<>>
    /\ outcome = "success"

\* What a direct call leaves when existsSync was asked about `expected`
CheckedOn(expected) ==
    /\ existsCalls = <<expected>>
    /\ disk = "present" => resolved = expected /\ notices = <<>>
    /\ disk # "present" => resolved = <<>> /\ Shown("FILE_NOT_FOUND")

\* What a direct call leaves when the reference was rejected
RejectedUnchecked ==
    /\ existsCalls = <<>>
    /\ resolved = <<>>
    /\ notices = <<"PATH_RESOLUTION_FAILED">>

ReachedExtraction == op = "click" /\ outcome \notin {"not_image", "no_image_element"}

\* C7: a click on an image whose only reference begins with "data:" or
\* "blob:" shows the embedded-image notice and no generic error
C7_EmbeddedNeverGeneric ==
    (ReachedExtraction /\ candidates = <<raw, <<>>, <<>>, <<>>, <<>>, <<>> >>
       /\ (StartsWith(raw, S_data) \/ StartsWith(raw, S_blob)))
        => Shown("EMBEDDED_IMAGE_ERROR") /\ ~Shown("GENERIC_ERROR")

\* C8: a click on an image whose src begins with "http://" or "https://"
\* shows the network-image notice first, never hands that reference on to
\* validation or resolution, and asks existsSync nothing on its account:
\* existsSync is asked only when another attribute supplied the path
C8_NetworkNeverChecked ==
    (ReachedExtraction /\ (StartsWith(raw, S_http) \/ StartsWith(raw, S_https)))
        => /\ notices # <<>>
           /\ notices[1] = "NETWORK_IMAGE_ERROR"
           /\ extracted.from # 1
           /\ extracted.from = 0 => existsCalls = <<>> /\ resolved = <<>> /\ shell = <<>>

\* A click on an image whose only reference is an https URL
C8_Witness ==
    /\ ReachedExtraction
    /\ StartsWith(raw, S_https)
    /\ candidates = <<raw, <<>>, <<>>, <<>>, <<>>, <<>> >>
    /\ Shown("NETWORK_IMAGE_ERROR")
    /\ existsCalls = <<>>

\* C10: the extractor's isDangerousPath, the resolver's isValidResolvedPath
\* and the launcher's isValidFilePath give the same verdict on every path
\* the invocation handled
C10_SameRuleSet ==
    op # "none"
        => \A p \in {raw, extracted.path, resolved} \ {<<>>} :
              /\ isDangerousPath(p) = ~isValidResolvedPath(p)
              /\ isValidResolvedPath(p) = isValidFilePath(p)

\* C11: an existing image whose name holds ( ) [ or ] and no other
\* dangerous character is accepted by the resolver, accepted by the
\* launcher's validation, and the open command is executed for it
C11_ParenthesesAllowed ==
    (/\ op = "click"
     /\ resolved # <<>>
     /\ \E i \in 1..Len(resolved) : resolved[i] \in {"(", ")", "[", "]"}
     /\ \A i \in 1..Len(resolved) : resolved[i] \notin {"{", "}"})
        => isValidFilePath(resolved) /\ shell # <<>>

\* The message, lower-cased, holds one of the words
MentionsAny(message, words) ==
    \E w \in words : IncludesStr(ToLowerCase(message), w)

PermissionWords ==
    { <<"e", "a", "c", "c", "e", "s">>,
      <<"e", "p", "e", "r", "m">>,
      <<"p", "e", "r", "m", "i", "s", "s", "i", "o", "n", " ", "d", "e", "n", "i", "e", "d">>,
      <<"a", "c", "c", "e", "s", "s", " ", "d", "e", "n", "i", "e", "d">> }

NotFoundWords ==
    { <<"e", "n", "o", "e", "n", "t">>,
      <<"f", "i", "l", "e", " ", "n", "o", "t", " ", "f", "o", "u", "n", "d">>,
      <<"n", "o", " ", "s", "u", "c", "h", " ", "f", "i", "l", "e">> }

\* The notices by which openWithDefaultApp reports the class of an error
ClassNotices == {"PERMISSION_DENIED", "FILE_NOT_FOUND", "SYSTEM_ERROR"}

\* C12: when the launch fails, openWithDefaultApp reports the error once:
\* as a permission failure if its message holds a permission keyword, else
\* as file-not-found if it holds a not-found keyword, else as a system
\* failure; then the error is thrown on, to the handler's catch block
C12_LaunchErrorClassified ==
    launchError # <<>>
        => /\ Cardinality({i \in 1..Len(notices) : notices[i] \in ClassNotices}) = 1
           /\ Len(notices) >= 2
           /\ notices[Len(notices) - 1] =
                 (IF MentionsAny(launchError, PermissionWords) THEN "PERMISSION_DENIED"
                  ELSE IF MentionsAny(launchError, NotFoundWords) THEN "FILE_NOT_FOUND"
                  ELSE "SYSTEM_ERROR")
           /\ notices[Len(notices)] = "GENERIC_ERROR"
           /\ outcome \in {"launch_failed", "launch_rejected"}

\* A failed command whose message holds a keyword of both classes
C12_Witness ==
    /\ outcome = "launch_failed"
    /\ MentionsAny(launchError, PermissionWords)
    /\ MentionsAny(launchError, NotFoundWords)
    /\ Shown("PERMISSION_DENIED")

\* C13: the promise handleImageDoubleClick returns never rejects: a click
\* that is over has a fulfilled promise, whichever step failed, and an
\* error thrown by the launch is reported as a generic error
C13_NoExceptionEscapes ==
    /\ promise # "rejected"
    /\ (op = "click" /\ pc = "done") => promise = "fulfilled"
    /\ (op = "click" /\ pc = "exec") => promise = "pending"
    /\ (op = "click" /\ outcome \in {"launch_failed", "launch_rejected"})
          => Shown("GENERIC_ERROR")

\* A launch whose command failed, after which the handler returned
C13_Witness ==
    /\ op = "click"
    /\ outcome = "launch_failed"
    /\ promise = "fulfilled"

\* C14: a click on an image shows exactly one notice when it fails and at
\* most one when it succeeds
C14_OneMessagePerClick ==
    (op = "click" /\ pc = "done" /\ prevented)
        => /\ Len(notices) <= 1
           /\ outcome # "success" => Len(notices) = 1

\* C15: a success notice is shown exactly when a launch completes without
\* error while showSuccessNotifications is true at that moment, and a click
\* on an image that fails shows a notice whatever the settings are
C15_SuccessSilentUnlessOptedIn ==
    [][ /\ (pc = "exec" /\ outcome' = "success")
           => notices' = notices \o (IF settings.showSuccessNotifications
                                     THEN <<"SUCCESS">> ELSE <<>>)
        /\ ((\E i \in 1..Len(notices') : notices'[i] = "SUCCESS") /\ ~Shown("SUCCESS"))
           => (pc = "exec" /\ outcome' = "success" /\ settings.showSuccessNotifications)
        /\ (op' = "click" /\ pc' = "done" /\ prevented' /\ outcome' # "success")
           => notices' # <<>>
      ]_vars

\* A launch that completed after the user opted in
C15_Witness ==
    /\ outcome = "success"
    /\ settings.showSuccessNotifications
    /\ notices = <<"SUCCESS">>

\* C16: a click starts exactly one child process when the reference
\* resolves and none when it does not; existsSync is asked at most once and
\* the launch is not repeated
C16_OneLaunchPerResolution ==
    op = "click"
        => /\ Len(existsCalls) <= 1
           /\ Len(shell) <= 1
           /\ resolved # <<>> => Len(shell) = 1
           /\ resolved = <<>> => shell = <<>>

\* Why a direct call fails, if it does
FailureCause(plat, cfg, answer, ref) ==
    IF Trim(ref) = <<>> THEN "empty"
    ELSE IF Len(ref) > 1000 THEN "too_long"
    ELSE IF Includes(ref, "NUL") THEN "null_byte"
    ELSE IF ~isValidResolvedPath(ResolvedCandidate(plat, cfg, ref).value) THEN "dangerous"
    ELSE IF answer = "throws_permission" THEN "permission_denied"
    ELSE IF answer # "present" THEN "not_found"
    ELSE "none"

\* C17: two direct calls that fail for different causes leave different
\* outcomes (returned value and notices), so the caller can tell the causes
\* apart
C17_FailureKindsDistinct ==
    (op = "resolve" /\ resolved = <<>>)
        => \A ref \in RefExtras \cup LongRefs, answer \in DiskAnswers :
              FailureCause(platform, configDir, answer, ref)
                    \notin {"none", FailureCause(platform, configDir, disk, raw)}
                 => resolveImagePath(platform, configDir, answer, ref).notices # notices

\* C18: a direct call on a blank reference, on one of more than 1000
\* characters or on one with a null byte returns no path and never asks
\* existsSync; a reference of exactly 1000 characters is not turned away for
\* its length
C18_InputChecks ==
    /\ (op = "resolve"
          /\ (Trim(raw) = <<>> \/ Len(raw) > 1000 \/ Includes(raw, "NUL")))
          => RejectedUnchecked
    /\ (op = "resolve" /\ Len(raw) = 1000 /\ \A i \in 1..996 : raw[i] = "a")
          => existsCalls # <<>>

\* A direct call on a reference of 1001 characters
C18_Witness ==
    /\ op = "resolve"
    /\ Len(raw) = 1001
    /\ notices = <<"PATH_RESOLUTION_FAILED">>

\* C19: a path resolveImagePath returns holds no null byte and no control
\* character, is at most 2000 characters long and matches none of the
\* shell-metacharacter patterns
C19_ResolvedPathClean ==
    (op \in {"resolve", "click"} /\ resolved # <<>>)
        => /\ \A i \in 1..Len(resolved) : resolved[i] \notin ControlChars
           /\ Len(resolved) <= 2000
           /\ ~MatchesAnyOf(resolved, {";", "&", "|", BQ, "$"})
           /\ ~LeadingRedirection(resolved)
           /\ ~VariableExpansion(resolved)
           /\ ~CommandSubstitution(resolved)

\* The formats the README lists, as extensions
ListedExtensions ==
    { <<".">> \o name : name \in
        { <<"p", "n", "g">>, <<"j", "p", "g">>, <<"j", "p", "e", "g">>,
          <<"g", "i", "f">>, <<"w", "e", "b", "p">>, <<"b", "m", "p">>,
          <<"s", "v", "g">>, <<"i", "c", "o">>, <<"t", "i", "f", "f">>,
          <<"t", "i", "f">>, <<"a", "v", "i", "f">>, <<"h", "e", "i", "c">>,
          <<"h", "e", "i", "f">> } }

\* The reference, without query and fragment, ends in a listed extension
EndsInListedExtension(ref) ==
    \E e \in ListedExtensions :
        EndsWith(ToLowerCase(BeforeFirst(BeforeFirst(ref, "?"), "#")), e)

\* C20: a click whose extracted reference does not end in a supported
\* extension ends with the invalid-format notice, and neither existsSync nor
\* the open command is reached
C20_OnlyImageFiles ==
    (ReachedExtraction /\ extracted.path # <<>> /\ ~EndsInListedExtension(extracted.path))
        => /\ outcome = "invalid_format"
           /\ notices[Len(notices)] = "INVALID_IMAGE_FORMAT"
           /\ existsCalls = <<>>
           /\ shell = <<>>

\* A click on an image whose src is a text file
C20_Witness ==
    /\ op = "click"
    /\ outcome = "invalid_format"
    /\ extracted.path = <<"c", ".", "t", "x", "t">>
    /\ Shown("INVALID_IMAGE_FORMAT")

\* The targets the handler is to treat as images: an img node, a span of
\* class image-embed, an element with an img descendant
ClassifiedAsImage(el) ==
    \/ el.tag = "img"
    \/ (el.tag = "span" /\ el.embed)
    \/ el.child

\* C21: default handling and propagation of a double click are stopped
\* exactly when the target is classified as an image; on any other target
\* the handler shows nothing, asks existsSync nothing and launches nothing
C21_StopsOnlyOnImages ==
    op = "click"
        => /\ prevented <=> ClassifiedAsImage(target)
           /\ ~ClassifiedAsImage(target)
                 => /\ notices = <<>>
                    /\ existsCalls = <<>>
                    /\ shell = <<>>
                    /\ candidates = <<>>
                    /\ outcome = "not_image"
                    /\ promise = "fulfilled"

\* A click on a span of class image-embed, which is stopped
C21_Witness ==
    /\ op = "click"
    /\ target.tag = "span"
    /\ target.embed
    /\ prevented

Sanitisable(cands) ==
    {i \in 1..Len(cands) : cands[i] # <<>> /\ sanitizeImagePath(cands[i]).path # <<>>}

\* The least position of a non-empty set of positions
FirstOf(P) == CHOOSE i \in P : \A j \in P : i <= j

\* C24: extractImagePath returns the sanitised form of the first candidate,
\* in the order src, alt, data-src, data-path, data-href, title, that is not
\* empty and sanitises to a path, and returns nothing exactly when there is
\* no such candidate
C24_FirstSanitisableCandidate ==
    ReachedExtraction
        => /\ Len(candidates) = 6
           /\ candidates[1] = raw
           /\ IF Sanitisable(candidates) = {}
              THEN extracted.path = <<>> /\ outcome = "no_path"
              ELSE /\ extracted.path
                         = sanitizeImagePath(candidates[FirstOf(Sanitisable(candidates))]).path
                   /\ outcome # "no_path"

\* A click where src and data-src fail and data-href, before title, is taken
C24_Witness ==
    /\ ReachedExtraction
    /\ Sanitisable(candidates) = {5, 6}
    /\ extracted.path = <<"h", ".", "p", "n", "g">>

\* C25: a direct call treats a reference as absolute, asking existsSync
\* about its normalised form and not about a path joined to the vault root,
\* exactly when isAbsolutePath holds of the reference as given: on Windows a
\* drive letter with a separator or a leading double backslash, elsewhere a
\* leading slash
C25_AbsoluteClassification ==
    (op = "resolve" /\ existsCalls # <<>>)
        => (isAbsolutePath(platform, raw)
               <=> existsCalls[1] = normalize(platform, CleanPath(raw)))

\* The message of the error existsSync threw, the empty string if it threw
\* none
DiskError ==
    CASE disk = "throws_permission" ->
             <<"E", "A", "C", "C", "E", "S", ":", " ", "p", "e", "r", "m", "i", "s",
               "s", "i", "o", "n", " ", "d", "e", "n", "i", "e", "d">>
      [] disk = "throws_io" ->
             <<"E", "I", "O", ":", " ", "i", "/", "o", " ", "e", "r", "r", "o", "r">>
      [] OTHER -> <<>>

\* C26: when existsSync throws, resolveImagePath returns no path and reports
\* the file as not found, as it does for a missing file; the error does not
\* leave validateFileExists, so the resolution-failed notice of the catch
\* block is not shown; and a permission-denied notice is shown exactly when
\* the error's message holds a permission keyword
C26_FilesystemErrorIsNotFound ==
    (op \in {"resolve", "click"} /\ DiskError # <<>>)
        => /\ resolved = <<>>
           /\ outcome = "unresolved"
           /\ shell = <<>>
           /\ notices[Len(notices)] = "FILE_NOT_FOUND"
           /\ ~Shown("PATH_RESOLUTION_FAILED")
           /\ ~Shown("GENERIC_ERROR")
           /\ Shown("PERMISSION_DENIED") <=> MentionsAny(DiskError, PermissionWords)
           /\ op = "click" => promise = "fulfilled"

\* A direct call during which existsSync threw a permission error
C26_Witness ==
    /\ op = "resolve"
    /\ disk = "throws_permission"
    /\ notices = <<"PERMISSION_DENIED", "FILE_NOT_FOUND">>
    /\ resolved = <<>>

\* The escaped form as stated: on Windows the path between double quotes
\* with each double quote doubled, elsewhere the path with a backslash
\* before each shell-special character
StatedEscape(plat, path) ==
    IF plat = "win32"
    THEN <<DQ>> \o Concat([i \in 1..Len(path) |->
                              IF path[i] = DQ THEN <<DQ, DQ>> ELSE <<path[i]>>])
                \o <<DQ>>
    ELSE Concat([i \in 1..Len(path) |->
                    IF path[i] \in ShellSpecial THEN <<BS, path[i]>> ELSE <<path[i]>>])

\* C27: escapeFilePath gives, for every path the resolver hands to the
\* launcher, the escaped form as stated, from which the path is read back
C27_EscapeAsStated ==
    (op = "click" /\ resolved # <<>>)
        => /\ escapeFilePath(platform, resolved).ok
           /\ escapeFilePath(platform, resolved).value = StatedEscape(platform, resolved)
           /\ OneArgumentFor(platform, StatedEscape(platform, resolved), resolved)

\* The reference after scheme, query and fragment handling, as it reaches
\* the percent-decoding step
Remainder(ref) ==
    ReplaceBackslashes(
        BeforeFirst(BeforeFirst(StripAppScheme(StripScheme(Trim(ref))), "?"), "#"))

\* The scheme checks turn the reference away
SchemeRejected(ref) ==
    \E scheme \in {S_data, S_blob, S_http, S_https} :
        StartsWith(StripAppScheme(StripScheme(Trim(ref))), scheme)

\* What the decoding step is stated to leave of a remainder: its decoded
\* form when decoding succeeds and the decoded form is not dangerous, the
\* remainder itself otherwise
StatedDecoding(rem) ==
    IF Includes(rem, "%") /\ WellFormedEscapes(rem) /\ ~isDangerousPath(DecodeEscapes(rem))
    THEN DecodeEscapes(rem)
    ELSE rem

\* The src attribute was sanitised to the extracted path
FromSrc == ReachedExtraction /\ raw # <<>> /\ extracted.from = 1

\* The decoding step as stated, on the src attribute of a clicked image
DecodingStepAsStated ==
    /\ FromSrc => extracted.path = Trim(StatedDecoding(Remainder(raw)))
    /\ (ReachedExtraction /\ raw # <<>> /\ extracted.from # 1)
          => \/ SchemeRejected(raw)
             \/ Trim(StatedDecoding(Remainder(raw))) = <<>>
             \/ OnlyDotsAndSlashes(Trim(StatedDecoding(Remainder(raw))))

OrderInState ==
    /\ (op = "click" /\ shell # <<>>)
          => existsCalls = <<resolved>> /\ disk = "present" /\ resolved # <<>>
    /\ (op = "click" /\ Shown("SUCCESS"))
          => outcome = "success" /\ launchError = <<>> /\ shell # <<>>
    /\ (op = "click" /\ outcome = "launch_failed")
          => /\ ~Shown("SUCCESS")
             /\ launchError # <<>>
             /\ Shown("SYSTEM_COMMAND_FAILED")
             /\ \E kind \in ClassNotices : Shown(kind)
             /\ (MentionsAny(launchError, NotFoundWords)
                   /\ ~MentionsAny(launchError, PermissionWords))
                   => Shown("FILE_NOT_FOUND")

\* The order of one click, as far as a step shows it: the outcome of a
\* launch is set, and a success notice appears, only by the step that ends
\* the wait for the child process, and that step neither asks existsSync
\* again nor issues another command
OrderInStep ==
    /\ (outcome' \in {"success", "launch_failed"} /\ outcome' # outcome)
          => /\ pc = "exec"
             /\ outcome = "launching"
             /\ shell # <<>>
             /\ shell' = shell
             /\ existsCalls' = existsCalls
             /\ resolved' = resolved
    /\ (~Shown("SUCCESS") /\ \E i \in 1..Len(notices') : notices'[i] = "SUCCESS")
          => pc = "exec" /\ outcome' = "success"

\* C29: within one click the existence check comes before the launch and
\* the launch before the report; success is reported only after the launch
\* call completed without error; a launch that fails because the file has
\* gone since the check is reported as a failure and never as a success
C29_CheckLaunchReport == []OrderInState /\ [][OrderInStep]_vars

\* The file was there at the check and gone at the launch
C29_Witness ==
    /\ op = "click"
    /\ disk = "present"
    /\ outcome = "launch_failed"
    /\ MentionsAny(launchError, NotFoundWords)
    /\ Shown("FILE_NOT_FOUND")
    /\ ~Shown("SUCCESS")

\* C23: while the plugin is loaded exactly one dblclick listener is
\* registered; once every onunload has run and no onload is pending, none
\* remains; and no double click is handled while the plugin is disabled
C23_ListenersCleanedUp ==
    /\ (\E i \in 1..Len(instances) :
           instances[i].stage = "loaded" /\ ~instances[i].unloaded)
          => Cardinality(listeners) = 1
    /\ (\A i \in 1..Len(instances) :
           instances[i].stage = "loaded" /\ instances[i].unloaded)
          => listeners = {}
    /\ \A i \in 1..Len(inflight) : inflight[i].live
    /\ \A i \in 1..Len(finished) : finished[i].live

\* The clicks handled so far, waiting or not
Clicks == inflight \o finished

\* How a click on the given src ends when it is the only one
Alone(ref, answer) ==
    HandleClick(platform, configDir, [tag |-> "img", embed |-> FALSE, child |-> FALSE],
                <<ref, <<>>, <<>>, <<>>, <<>>, <<>> >>, answer)

\* The click is as it would be alone
AsAlone(click, alone) ==
    /\ click.resolved = alone.resolved
    /\ click.command = alone.shell
    /\ alone.pc = "done" => click.outcome = alone.outcome
    /\ alone.pc = "exec" => click.outcome \in {"launching", "success", "launch_failed"}
    /\ click.outcome = "success" => click.reported = alone.resolved

===========================================================================
